---- MODULE Spec2Model ----
(***************************************************************************)
(* Model of the Quick Quiz API proxy (api/anthropic.js): a serverless      *)
(* handler that rate-limits callers through a Redis counter with a 24 hour *)
(* expiry, forwards permitted requests to the upstream API and relays the  *)
(* upstream response.  Every await of the handler is an interleaving       *)
(* point; the code between two awaits is one atomic action.                *)
(***************************************************************************)
EXTENDS Integers, Sequences, FiniteSets, TLC

(* ------------------------------ bounds --------------------------------- *)
\* requests started in one run
MaxRequests == 2
\* clock ticks in one UTC calendar day
TicksPerDay == 2
\* last clock tick of a run
MaxTime == 2

(* ------------------------- program constants --------------------------- *)
DAILY_LIMIT == 10

\* { ex: 86400 }: one day, in clock ticks
EX == TicksPerDay

\* handler invocations that may be in flight at the same time
Reqs == {1, 2}

(* ------------------------------ strings -------------------------------- *)
\* a string is a sequence of one-character strings
unknown == <<"u", "n", "k", "n", "o", "w", "n">>
usage == <<"u", "s", "a", "g", "e">>

Digit(d) == <<"0", "1", "2", "3", "4", "5", "6", "7", "8", "9">>[d + 1]

RECURSIVE toString(_)
\* Number.prototype.toString of a non-negative integer
toString(n) == IF n < 10 THEN <<Digit(n)>> ELSE toString(n \div 10) \o <<Digit(n % 10)>>

\* s.split(',')[0]
RECURSIVE splitFirst(_)
splitFirst(s) ==
  IF s = <<>> THEN <<>>
  ELSE IF Head(s) = "," THEN <<>>
  ELSE <<Head(s)>> \o splitFirst(Tail(s))

RECURSIVE trimStart(_)
trimStart(s) == IF s # <<>> /\ Head(s) = " " THEN trimStart(Tail(s)) ELSE s

RECURSIVE trimEnd(_)
trimEnd(s) ==
  IF s # <<>> /\ s[Len(s)] = " " THEN trimEnd(SubSeq(s, 1, Len(s) - 1)) ELSE s

\* String.prototype.trim
trim(s) == trimEnd(trimStart(s))

\* new Date().toISOString().split('T')[0] at clock tick t; tick 0 is the
\* start of 1970-01-01
todayOf(t) ==
  LET day == (t \div TicksPerDay) + 1
  IN  <<"1", "9", "7", "0", "-", "0", "1", "-">>
        \o (IF day < 10 THEN <<"0">> ELSE <<>>) \o toString(day)

(* ------------------------------ requests ------------------------------- *)
Methods == {"OPTIONS", "POST", "GET"}

\* values of the X-Client-ID header
ClientIdValues == {<<"a">>}
\* values of the X-Forwarded-For header
ForwardedValues == {<<" ", "1", " ", ",", "2">>}

HeaderNames == {"x-client-id", "x-forwarded-for"}

HeaderValues(n) == IF n = "x-client-id" THEN ClientIdValues ELSE ForwardedValues

\* req.headers: a header that was not sent is not in the domain
Headers ==
  UNION { { h \in [D -> ClientIdValues \cup ForwardedValues] :
              \A n \in D : h[n] \in HeaderValues(n) } : D \in SUBSET HeaderNames }

\* req.headers['x-client-id'] || 'unknown'
clientId(headers) ==
  IF "x-client-id" \in DOMAIN headers /\ headers["x-client-id"] # <<>>
    THEN headers["x-client-id"]
    ELSE unknown

\* the first address is not trimmed
clientIP_raw(headers) ==
  IF "x-forwarded-for" \in DOMAIN headers
       /\ splitFirst(headers["x-forwarded-for"]) # <<>>
    THEN splitFirst(headers["x-forwarded-for"])
    ELSE unknown

\* req.headers['x-forwarded-for']?.split(',')[0]?.trim() || 'unknown'
clientIP(headers) ==
  IF "x-forwarded-for" \in DOMAIN headers
       /\ trim(splitFirst(headers["x-forwarded-for"])) # <<>>
    THEN trim(splitFirst(headers["x-forwarded-for"]))
    ELSE unknown

identifier(headers) == clientId(headers) \o <<":">> \o clientIP(headers)

\* `usage:${identifier}:${today}`
keyOf(headers, t) == usage \o <<":">> \o identifier(headers) \o <<":">> \o todayOf(t)

(* ------------------------------ upstream ------------------------------- *)
\* status codes the upstream API answers with
UpstreamStatuses == {200, 500}

\* response bodies of the upstream API, as sequences of UTF-8 units: an
\* ASCII byte, "BOM" (EF BB BF, the encoding of U+FEFF) or "xFF" (a byte
\* that is not well-formed UTF-8)
UpstreamBodies == {<<"{", "}">>, <<"BOM", "{", "xFF">>}

\* every status counts as a success
ok_any(status) == status >= 200

\* Response.ok
ok(status) == status >= 200 /\ status <= 299

\* the responses fetch can resolve to
UpstreamResponses ==
  { [ok |-> ok(s), status |-> s, body |-> b] : s \in UpstreamStatuses, b \in UpstreamBodies }

noResponse == [ok |-> FALSE, status |-> 0, body |-> <<>>]

\* UTF-8 decode without the BOM handling: an ill-formed byte decodes to
\* U+FFFD, U+FEFF stays
RECURSIVE utf8Decode(_)
utf8Decode(bytes) ==
  IF bytes = <<>> THEN <<>>
  ELSE <<IF Head(bytes) = "xFF" THEN "U+FFFD"
         ELSE IF Head(bytes) = "BOM" THEN "U+FEFF"
         ELSE Head(bytes)>> \o utf8Decode(Tail(bytes))

\* Response.text(): UTF-8 decode, a leading byte order mark is dropped
text(bytes) ==
  IF bytes # <<>> /\ Head(bytes) = "BOM" THEN utf8Decode(Tail(bytes))
  ELSE utf8Decode(bytes)

\* res.send(string): the string is written UTF-8 encoded
RECURSIVE send(_)
send(str) ==
  IF str = <<>> THEN <<>>
  ELSE <<IF Head(str) = "U+FFFD" THEN "xEFBFBD"
         ELSE IF Head(str) = "U+FEFF" THEN "BOM"
         ELSE Head(str)>> \o send(Tail(str))

(* ------------------------------- state --------------------------------- *)
VARIABLES
  env,                \* process.env: which of the store's settings are set
  now,                \* the clock, in ticks
  store,              \* the Redis store: key -> [value, expireAt]
  pc,                 \* where each handler invocation stands
  req,                \* its request: [method, headers]
  key,                \* its local key
  currentUsage,       \* its local currentUsage
  anthropicResponse,  \* its local anthropicResponse
  res,                \* the response it has sent
  log,                \* what it has done: store reads, store writes, upstream calls
  forwarded,          \* key -> upstream calls of that key that returned ok
  started             \* requests started so far

vars == <<env, now, store, pc, req, key, currentUsage, anthropicResponse, res,
          log, forwarded, started>>

\* getRedis() returns a client (TRUE) or null (FALSE)
getRedis(e) == e.UPSTASH_REDIS_REST_URL /\ e.UPSTASH_REDIS_REST_TOKEN

noRequest == [method |-> "", headers |-> <<>>]
noRes == [status |-> 0, headers |-> <<>>, json |-> <<>>, body |-> <<>>]
\* seen is the count the store held for the key when the quota was checked
noLog == [get |-> 0, set |-> 0, fetch |-> 0, getFailed |-> FALSE,
          setFailed |-> FALSE, seen |-> 0]

\* the count the store holds for key k
stored(st, k) == IF k \in DOMAIN st THEN st[k].value ELSE 0

\* redis.get(key): <<>> is null
redisGet(st, k) == IF k \in DOMAIN st THEN <<st[k].value>> ELSE <<>>

\* the count read is dropped
parseIntOr0_zero(x) == 0

\* the count read is one too high
parseIntOr0_plus(x) == IF x = <<>> THEN 0 ELSE x[1] + 1

\* parseInt(x || '0')
parseIntOr0(x) == IF x = <<>> \/ x[1] = 0 THEN 0 ELSE x[1]

\* the time to live of a key that exists is kept
redisSet_keepttl(st, k, v, t) ==
  [j \in DOMAIN st \cup {k} |->
     IF j = k
       THEN [value |-> v, expireAt |-> IF k \in DOMAIN st THEN st[k].expireAt ELSE t + EX]
       ELSE st[j]]

\* redis.set(key, value, { ex: 86400 })
redisSet(st, k, v, t) ==
  [j \in DOMAIN st \cup {k} |->
     IF j = k THEN [value |-> v, expireAt |-> t + EX] ELSE st[j]]

\* the store drops a key when its time to live is over
expire(st, t) == [j \in {i \in DOMAIN st : st[i].expireAt > t} |-> st[j]]

count(f, k) == IF k \in DOMAIN f THEN f[k] ELSE 0

bump(f, k) == [j \in DOMAIN f \cup {k} |-> IF j = k THEN count(f, k) + 1 ELSE f[j]]

\* counts one caller has reached at tick 0, by that many successful requests
SeedCounts == {0, DAILY_LIMIT - 1}

seed(u) ==
  IF u = 0 THEN <<>>
  ELSE [k \in {keyOf(<<>>, 0)} |-> [value |-> u, expireAt |-> EX]]

Init ==
  /\ env \in [UPSTASH_REDIS_REST_URL : BOOLEAN, UPSTASH_REDIS_REST_TOKEN : BOOLEAN]
  /\ now = 0
  /\ \E u \in SeedCounts :
       /\ store = seed(u)
       /\ forwarded = [k \in DOMAIN seed(u) |-> u]
  /\ pc = [r \in Reqs |-> "idle"]
  /\ req = [r \in Reqs |-> noRequest]
  /\ key = [r \in Reqs |-> <<>>]
  /\ currentUsage = [r \in Reqs |-> 0]
  /\ anthropicResponse = [r \in Reqs |-> noResponse]
  /\ res = [r \in Reqs |-> noRes]
  /\ log = [r \in Reqs |-> noLog]
  /\ started = 0

(* ----------------------------- responses ------------------------------- *)
\* the preflight is answered 204
preflight_204 ==
  [status |-> 204,
   headers |-> [n \in {"Access-Control-Allow-Origin"} |-> "*"],
   json |-> <<>>, body |-> <<>>]

\* lines 26-31
preflight ==
  [status |-> 200,
   headers |-> [n \in {"Access-Control-Allow-Origin", "Access-Control-Allow-Methods",
                       "Access-Control-Allow-Headers"} |->
                  IF n = "Access-Control-Allow-Origin" THEN "*"
                  ELSE IF n = "Access-Control-Allow-Methods" THEN "POST, OPTIONS"
                  ELSE "Content-Type, X-Client-ID"],
   json |-> <<>>, body |-> <<>>]

methodNotAllowed ==
  [status |-> 405, headers |-> <<>>, json |-> [error |-> "Method not allowed"],
   body |-> <<>>]

\* the limit header is left out
rateLimitHeaders_one(remaining) ==
  [n \in {"X-RateLimit-Remaining"} |-> remaining]

rateLimitHeaders(remaining) ==
  [n \in {"X-RateLimit-Limit", "X-RateLimit-Remaining"} |->
     IF n = "X-RateLimit-Limit" THEN toString(DAILY_LIMIT) ELSE remaining]

rateLimitExceeded(used) ==
  [status |-> 429,
   headers |-> rateLimitHeaders(<<"0">>),
   json |-> [error |-> [type |-> "rate_limit_exceeded",
                        message |-> <<"Daily limit of ", toString(DAILY_LIMIT),
                                      " quizzes reached. Please try again tomorrow.">>,
                        limit |-> DAILY_LIMIT,
                        used |-> used,
                        resets |-> "midnight UTC"]],
   body |-> <<>>]

\* the transport failure is reported as a server error
failedToReach_500 ==
  [status |-> 500, headers |-> <<>>, json |-> [error |-> "Failed to reach API"],
   body |-> <<>>]

failedToReach ==
  [status |-> 502, headers |-> <<>>, json |-> [error |-> "Failed to reach API"],
   body |-> <<>>]

max(a, b) == IF a >= b THEN a ELSE b

\* the upstream status is not copied
relay_200(response, used) ==
  LET responseBody == text(response.body)
      remaining == DAILY_LIMIT - used - 1
  IN  [status |-> 200,
       headers |-> rateLimitHeaders(toString(max(0, remaining))),
       json |-> <<>>,
       body |-> send(responseBody)]

\* lines 97-103: the upstream response with the rate limit headers
relay(response, used) ==
  LET responseBody == text(response.body)
      remaining == DAILY_LIMIT - used - 1
  IN  [status |-> response.status,
       headers |-> rateLimitHeaders(toString(max(0, remaining))),
       json |-> <<>>,
       body |-> send(responseBody)]

(* ------------------------------ actions -------------------------------- *)
\* the limit itself is let through
overLimit_gt(cu) == cu > DAILY_LIMIT

\* the last request of the quota is refused
overLimit_early(cu) == cu >= DAILY_LIMIT - 1

\* one request more than the limit is let through
overLimit_late(cu) == cu >= DAILY_LIMIT + 1

\* line 56: currentUsage >= DAILY_LIMIT
overLimit(cu) == cu >= DAILY_LIMIT

\* lines 56-82: the quota check on a count cu; the request is answered 429
\* or the upstream call is issued
checkQuota(r, cu, lg) ==
  /\ currentUsage' = [currentUsage EXCEPT ![r] = cu]
  /\ IF overLimit(cu)
       THEN /\ res' = [res EXCEPT ![r] = rateLimitExceeded(cu)]
            /\ pc' = [pc EXCEPT ![r] = "done"]
            /\ log' = [log EXCEPT ![r] = lg]
       ELSE /\ pc' = [pc EXCEPT ![r] = "fetch"]
            /\ log' = [log EXCEPT ![r] = [lg EXCEPT !.fetch = @ + 1]]
            /\ UNCHANGED res

\* GET is let through as well
notPost_get(m) == m \notin {"POST", "GET"}

\* line 33: req.method !== 'POST'
notPost(m) == m # "POST"

\* lines 24-50: a request with method m and headers h arrives; the handler
\* runs to its first await, or to its response
handler(r, m, h) ==
  /\ pc[r] = "idle"
  /\ started < MaxRequests
  /\ started' = started + 1
  /\ req' = [req EXCEPT ![r] = [method |-> m, headers |-> h]]
  /\ UNCHANGED <<env, now, store, anthropicResponse, forwarded>>
  /\ IF m = "OPTIONS"
       THEN /\ res' = [res EXCEPT ![r] = preflight]
            /\ pc' = [pc EXCEPT ![r] = "done"]
            /\ UNCHANGED <<key, currentUsage, log>>
     ELSE IF notPost(m)
       THEN /\ res' = [res EXCEPT ![r] = methodNotAllowed]
            /\ pc' = [pc EXCEPT ![r] = "done"]
            /\ UNCHANGED <<key, currentUsage, log>>
     ELSE LET k == keyOf(h, now)
              lg == noLog
          IN  /\ key' = [key EXCEPT ![r] = k]
              /\ IF getRedis(env)
                   THEN /\ pc' = [pc EXCEPT ![r] = "get"]
                        /\ log' = [log EXCEPT ![r] = [lg EXCEPT !.get = 1]]
                        /\ UNCHANGED <<res, currentUsage>>
                   ELSE checkQuota(r, 0, [lg EXCEPT !.seen = stored(store, k)])

\* a failed read blocks the request
redisGetDone_closed(r, throws) ==
  /\ pc[r] = "get"
  /\ UNCHANGED <<env, now, store, req, key, anthropicResponse, forwarded, started>>
  /\ IF throws
       THEN checkQuota(r, DAILY_LIMIT, [log[r] EXCEPT !.getFailed = TRUE,
                                                      !.seen = stored(store, key[r])])
       ELSE checkQuota(r, parseIntOr0(redisGet(store, key[r])),
                       [log[r] EXCEPT !.seen = stored(store, key[r])])

\* a failed read still yields the count that is in the store
redisGetDone_stale(r, throws) ==
  /\ pc[r] = "get"
  /\ UNCHANGED <<env, now, store, req, key, anthropicResponse, forwarded, started>>
  /\ checkQuota(r, parseIntOr0(redisGet(store, key[r])),
                [log[r] EXCEPT !.getFailed = throws, !.seen = stored(store, key[r])])

\* lines 50-54: redis.get returns or throws
redisGetDone(r, throws) ==
  /\ pc[r] = "get"
  /\ UNCHANGED <<env, now, store, req, key, anthropicResponse, forwarded, started>>
  /\ IF throws
       THEN checkQuota(r, 0, [log[r] EXCEPT !.getFailed = TRUE,
                                            !.seen = stored(store, key[r])])
       ELSE checkQuota(r, parseIntOr0(redisGet(store, key[r])),
                       [log[r] EXCEPT !.seen = stored(store, key[r])])

\* the response sent once the upstream response is there
respond(r, response) ==
  /\ res' = [res EXCEPT ![r] = relay(response, currentUsage[r])]
  /\ pc' = [pc EXCEPT ![r] = "done"]

\* the upstream call is tried a second time
fetchThrows_retry(r) ==
  /\ pc[r] = "fetch"
  /\ IF log[r].fetch < 2
       THEN /\ log' = [log EXCEPT ![r].fetch = @ + 1]
            /\ UNCHANGED <<res, pc>>
       ELSE /\ res' = [res EXCEPT ![r] = failedToReach]
            /\ pc' = [pc EXCEPT ![r] = "done"]
            /\ UNCHANGED log
  /\ UNCHANGED <<env, now, store, req, key, currentUsage, anthropicResponse,
                 forwarded, started>>

\* lines 83-86: fetch throws
fetchThrows(r) ==
  /\ pc[r] = "fetch"
  /\ res' = [res EXCEPT ![r] = failedToReach]
  /\ pc' = [pc EXCEPT ![r] = "done"]
  /\ UNCHANGED <<env, now, store, req, key, currentUsage, anthropicResponse, log,
                 forwarded, started>>

\* lines 74-91: fetch resolves to a response
fetchDone(r, response) ==
  /\ pc[r] = "fetch"
  /\ anthropicResponse' = [anthropicResponse EXCEPT ![r] = response]
  /\ forwarded' = IF response.ok THEN bump(forwarded, key[r]) ELSE forwarded
  /\ UNCHANGED <<env, now, store, req, key, currentUsage, started>>
  /\ IF response.ok /\ getRedis(env)
       THEN /\ pc' = [pc EXCEPT ![r] = "set"]
            /\ log' = [log EXCEPT ![r].set = @ + 1]
            /\ UNCHANGED res
       ELSE /\ respond(r, response)
            /\ UNCHANGED log

\* the count is written back as it was read
increment_same(n) == n

\* the count is raised by two
increment_two(n) == n + 2

\* line 91: currentUsage + 1
increment(n) == n + 1

\* lines 91-103: redis.set returns or throws
redisSetDone(r, throws) ==
  /\ pc[r] = "set"
  /\ store' = IF throws THEN store
              ELSE redisSet(store, key[r], increment(currentUsage[r]), now)
  /\ log' = [log EXCEPT ![r].setFailed = throws]
  /\ respond(r, anthropicResponse[r])
  /\ UNCHANGED <<env, now, req, key, currentUsage, anthropicResponse, forwarded,
                 started>>

\* the invocation is over
return(r) ==
  /\ pc[r] = "done"
  /\ pc' = [pc EXCEPT ![r] = "idle"]
  /\ req' = [req EXCEPT ![r] = noRequest]
  /\ key' = [key EXCEPT ![r] = <<>>]
  /\ currentUsage' = [currentUsage EXCEPT ![r] = 0]
  /\ anthropicResponse' = [anthropicResponse EXCEPT ![r] = noResponse]
  /\ res' = [res EXCEPT ![r] = noRes]
  /\ log' = [log EXCEPT ![r] = noLog]
  /\ UNCHANGED <<env, now, store, forwarded, started>>

\* time passes; the store drops the keys whose time to live is over
Tick ==
  /\ now < MaxTime
  /\ now' = now + 1
  /\ store' = expire(store, now + 1)
  /\ UNCHANGED <<env, pc, req, key, currentUsage, anthropicResponse, res, log,
                 forwarded, started>>

Next ==
  \/ \E r \in Reqs, m \in Methods, h \in Headers : handler(r, m, h)
  \/ \E r \in Reqs, throws \in BOOLEAN : redisGetDone(r, throws)
  \/ \E r \in Reqs : fetchThrows(r)
  \/ \E r \in Reqs, response \in UpstreamResponses : fetchDone(r, response)
  \/ \E r \in Reqs, throws \in BOOLEAN : redisSetDone(r, throws)
  \/ \E r \in Reqs : return(r)
  \/ Tick

Spec == Init /\ [][Next]_vars

(* ---------------- requests one at a time, a working store ---------------- *)
InitSeq == Init /\ getRedis(env)

\* a request arrives while no other is being handled
handlerAlone(r, m, h) == (\A q \in Reqs : pc[q] = "idle") /\ handler(r, m, h)

NextSeq ==
  \/ \E r \in Reqs, m \in Methods, h \in Headers : handlerAlone(r, m, h)
  \/ \E r \in Reqs : redisGetDone(r, FALSE)
  \/ \E r \in Reqs : fetchThrows(r)
  \/ \E r \in Reqs, response \in UpstreamResponses : fetchDone(r, response)
  \/ \E r \in Reqs : redisSetDone(r, FALSE)
  \/ \E r \in Reqs : return(r)
  \/ Tick

SpecSeq == InitSeq /\ [][NextSeq]_vars

TypeOK ==
  /\ now \in 0..MaxTime
  /\ started \in 0..MaxRequests
  /\ \A r \in Reqs : pc[r] \in {"idle", "get", "fetch", "set", "done"}
  /\ \A k \in DOMAIN store : store[k].value \in 1..DAILY_LIMIT

(* ------------------------------ properties ----------------------------- *)
POST(r) == req[r].method = "POST"

\* the upstream call of r has resolved to a response
completed(r) == anthropicResponse[r] # noResponse

\* the store read of r returned
readOk(r) == log[r].get = 1 /\ ~log[r].getFailed

Remaining(r) == res[r].headers["X-RateLimit-Remaining"]

\* the step in which r sends its response
Responds(r) == pc[r] # "done" /\ pc'[r] = "done"

\* C1: a POST whose store read succeeds and finds a count u >= 10 is
\* answered 429 with error type rate_limit_exceeded and used = u, calls
\* neither the upstream nor redis.set, and the step that answers it leaves
\* the store as it was.
C1_RateLimited ==
  /\ [](\A r \in Reqs :
          (pc[r] = "done" /\ POST(r) /\ readOk(r) /\ log[r].seen >= DAILY_LIMIT)
            => /\ res[r].status = 429
               /\ res[r].json.error.type = "rate_limit_exceeded"
               /\ res[r].json.error.used = log[r].seen
               /\ log[r].fetch = 0
               /\ log[r].set = 0)
  /\ [][\A r \in Reqs :
          (Responds(r) /\ res'[r].status = 429) => store' = store]_vars

C1_Witness ==
  \E r \in Reqs :
    /\ pc[r] = "done" /\ POST(r) /\ readOk(r)
    /\ log[r].seen = DAILY_LIMIT /\ res[r].status = 429

sameDate(r) == key[r] = keyOf(req[r].headers, now)

\* C3 as stated: with requests handled one at a time and a working store,
\* at most 10 requests of a key are forwarded with a successful status and
\* every request of the key after them is answered 429.
C3_Original ==
  /\ [](\A k \in DOMAIN forwarded : forwarded[k] <= DAILY_LIMIT)
  /\ [](\A r \in Reqs :
          (pc[r] = "done" /\ POST(r) /\ ~anthropicResponse[r].ok
             /\ count(forwarded, key[r]) >= DAILY_LIMIT)
            => res[r].status = 429)

\* C3 (amended): with requests handled one at a time and a working store,
\* a request handled within the UTC date of its key is forwarded with a
\* successful status only as one of the first 10 of that key, and after 10
\* such forwards every further request handled within that date is
\* answered 429 without an upstream call.
C3_Quota ==
  /\ [][\A r \in Reqs :
          (pc[r] = "fetch" /\ anthropicResponse'[r].ok /\ sameDate(r))
            => count(forwarded', key[r]) <= DAILY_LIMIT]_vars
  /\ [](\A r \in Reqs :
          (pc[r] = "done" /\ POST(r) /\ sameDate(r) /\ ~anthropicResponse[r].ok
             /\ count(forwarded, key[r]) >= DAILY_LIMIT)
            => res[r].status = 429 /\ log[r].fetch = 0)

C3_Witness ==
  \E r \in Reqs :
    /\ pc[r] = "done" /\ POST(r) /\ sameDate(r)
    /\ count(forwarded, key[r]) = DAILY_LIMIT
    /\ res[r].status = 429

\* C4: when fetch throws the request is answered 502, it has issued no
\* store write, and the step leaves the store as it was.
C4_Unreachable ==
  /\ [][\A r \in Reqs :
          (pc[r] = "fetch" /\ Responds(r) /\ ~completed(r)')
            => res'[r].status = 502 /\ store' = store]_vars
  /\ [](\A r \in Reqs :
          (pc[r] = "done" /\ log[r].fetch = 1 /\ ~completed(r))
            => res[r].status = 502 /\ log[r].set = 0)

C4_Witness ==
  \E r \in Reqs :
    /\ pc[r] = "done" /\ log[r].fetch = 1 /\ ~completed(r)
    /\ res[r].status = 502
    /\ stored(store, key[r]) = DAILY_LIMIT - 1

\* C5: an upstream response with a non-successful status leaves the store
\* as it was and issues no store write; the count of a key rises only
\* in the redis.set step of a request whose upstream response was ok.
C5_OnlyOnSuccess ==
  /\ [][\A r \in Reqs :
          (pc[r] = "fetch" /\ completed(r)'
             /\ anthropicResponse'[r].status \notin 200..299)
            => pc'[r] = "done" /\ store' = store /\ log'[r].set = 0]_vars
  /\ [][\A k \in DOMAIN store' :
          stored(store', k) # stored(store, k)
            => \E r \in Reqs :
                 /\ pc[r] = "set" /\ key[r] = k
                 /\ anthropicResponse[r].status \in 200..299]_vars

C5_Witness ==
  \E r \in Reqs :
    /\ pc[r] = "done" /\ completed(r) /\ anthropicResponse[r].status = 500
    /\ readOk(r) /\ log[r].set = 0
    /\ stored(store, key[r]) = log[r].seen /\ log[r].seen > 0

\* C6: a POST handled without a store client, or whose store read threw,
\* is never answered 429, calls the upstream once with a count of 0, and
\* when the upstream answers, the response has the upstream status, the
\* relayed body and the remaining quota of a first request, whether or not
\* the store write threw.
C6_FailOpen ==
  \A r \in Reqs :
    (pc[r] = "done" /\ POST(r) /\ (~getRedis(env) \/ log[r].getFailed))
      => /\ res[r].status # 429
         /\ log[r].fetch = 1
         /\ currentUsage[r] = 0
         /\ completed(r)
              => /\ res[r].status = anthropicResponse[r].status
                 /\ res[r].body = send(text(anthropicResponse[r].body))
                 /\ Remaining(r) = toString(DAILY_LIMIT - 1)

C6_Witness ==
  \E r \in Reqs :
    /\ pc[r] = "done" /\ POST(r) /\ log[r].getFailed /\ log[r].setFailed
    /\ log[r].seen = DAILY_LIMIT
    /\ res[r].status = 200

\* the bytes are well-formed UTF-8 and do not start with a byte order mark
plainUtf8(bytes) ==
  /\ \A i \in 1..Len(bytes) : bytes[i] # "xFF"
  /\ bytes = <<>> \/ Head(bytes) # "BOM"

\* C7 as stated: whenever the upstream call completes, the response has
\* exactly the upstream status and exactly the upstream body.
C7_Original ==
  \A r \in Reqs :
    (pc[r] = "done" /\ completed(r))
      => /\ res[r].status = anthropicResponse[r].status
         /\ res[r].body = anthropicResponse[r].body

\* C7 (amended): whenever the upstream call completes, the response has
\* exactly the upstream status, and exactly the upstream body when that
\* body is well-formed UTF-8 without a leading byte order mark; the store
\* state and the outcome of the store write make no difference.
C7_Relay ==
  \A r \in Reqs :
    (pc[r] = "done" /\ completed(r))
      => /\ res[r].status = anthropicResponse[r].status
         /\ plainUtf8(anthropicResponse[r].body)
              => res[r].body = anthropicResponse[r].body

C7_Witness ==
  \E r \in Reqs :
    /\ pc[r] = "done" /\ completed(r) /\ log[r].setFailed
    /\ plainUtf8(anthropicResponse[r].body)
    /\ res[r].status = 200 /\ res[r].body = <<"{", "}">>

\* C8: a request with method OPTIONS is answered 200 in the step it
\* arrives in, which reads no store key, writes none and calls no upstream.
C8_Preflight ==
  /\ [][\A r \in Reqs :
          (pc[r] = "idle" /\ pc'[r] # "idle" /\ req'[r].method = "OPTIONS")
            => /\ pc'[r] = "done"
               /\ res'[r].status = 200
               /\ store' = store]_vars
  /\ [](\A r \in Reqs :
          (pc[r] # "idle" /\ req[r].method = "OPTIONS")
            => /\ pc[r] = "done"
               /\ log[r].get = 0 /\ log[r].set = 0 /\ log[r].fetch = 0)

C8_Witness ==
  \E r \in Reqs :
    pc[r] = "done" /\ req[r].method = "OPTIONS" /\ res[r].status = 200

\* C9: a request whose method is neither OPTIONS nor POST is answered 405
\* in the step it arrives in, which reads no store key, writes none and
\* calls no upstream.
C9_MethodGate ==
  /\ [][\A r \in Reqs :
          (pc[r] = "idle" /\ pc'[r] # "idle"
             /\ req'[r].method \notin {"OPTIONS", "POST"})
            => /\ pc'[r] = "done"
               /\ res'[r].status = 405
               /\ store' = store]_vars
  /\ [](\A r \in Reqs :
          (pc[r] # "idle" /\ req[r].method \notin {"OPTIONS", "POST"})
            => /\ pc[r] = "done"
               /\ log[r].get = 0 /\ log[r].set = 0 /\ log[r].fetch = 0)

C9_Witness ==
  \E r \in Reqs :
    pc[r] = "done" /\ req[r].method = "GET" /\ res[r].status = 405

hasRateLimitHeaders(r) ==
  {"X-RateLimit-Limit", "X-RateLimit-Remaining"} \subseteq DOMAIN res[r].headers

\* C10 as stated: every response to a POST carries X-RateLimit-Limit and
\* X-RateLimit-Remaining.
C10_Original ==
  \A r \in Reqs : (pc[r] = "done" /\ POST(r)) => hasRateLimitHeaders(r)

\* C10 (amended): the response to a POST carries X-RateLimit-Limit and
\* X-RateLimit-Remaining when it is the 429 or the relayed upstream
\* response, and neither of them when it is the 502 sent after fetch threw.
C10_Headers ==
  \A r \in Reqs :
    (pc[r] = "done" /\ POST(r))
      => IF log[r].fetch = 1 /\ ~completed(r)
           THEN res[r].status = 502
                /\ DOMAIN res[r].headers
                     \cap {"X-RateLimit-Limit", "X-RateLimit-Remaining"} = {}
           ELSE /\ hasRateLimitHeaders(r)
                /\ res[r].headers["X-RateLimit-Limit"] = toString(DAILY_LIMIT)

C10_Witness ==
  \E r, q \in Reqs :
    /\ pc[r] = "done" /\ POST(r) /\ log[r].fetch = 1 /\ ~completed(r)
    /\ res[r].status = 502 /\ ~hasRateLimitHeaders(r)
    /\ pc[q] = "done" /\ POST(q) /\ completed(q)
    /\ anthropicResponse[q].status = 500 /\ hasRateLimitHeaders(q)

\* the step in which the redis.set of r is applied to the store
Writes(r) == pc[r] = "set" /\ pc'[r] = "done" /\ ~log'[r].setFailed

\* C11: the stored counter of a key never decreases: every store write
\* to a key that is in the store leaves its count greater than or equal to
\* the count it held just before the write.
C11_NonDecreasing ==
  [][\A r \in Reqs :
       (Writes(r) /\ key[r] \in DOMAIN store)
         => stored(store', key[r]) >= stored(store, key[r])]_vars

\* C12: in every reachable state the stored count of a key is at most the
\* number of requests of that key whose upstream call returned a
\* successful status.
C12_LowerBound ==
  \A k \in DOMAIN store : stored(store, k) <= count(forwarded, k)

C12_Witness ==
  \E k \in DOMAIN store :
    /\ stored(store, k) = DAILY_LIMIT
    /\ count(forwarded, k) = DAILY_LIMIT + 1

\* C13 as stated: every store write of a forwarded request whose read
\* succeeded, applied while the key it read is still in the store, raises
\* the stored count of the key by exactly one, also when requests overlap.
C13_Original ==
  [][\A r \in Reqs :
       (Writes(r) /\ readOk(r) /\ (log[r].seen > 0 => key[r] \in DOMAIN store))
         => stored(store', key[r]) = stored(store, key[r]) + 1]_vars

\* C13 (amended): the increment is a read followed by a write: a store
\* write of a forwarded request whose read succeeded sets the count to one
\* more than the count that request read, which is one more than the count
\* held just before the write only when the key still holds the count read.
C13_ReadThenWrite ==
  [][\A r \in Reqs :
       (Writes(r) /\ readOk(r))
         => /\ stored(store', key[r]) = log[r].seen + 1
            /\ stored(store, key[r]) = log[r].seen
                 => stored(store', key[r]) = stored(store, key[r]) + 1]_vars

C13_Witness ==
  \E r, q \in Reqs :
    /\ r # q /\ key[r] = key[q]
    /\ pc[r] = "done" /\ readOk(r) /\ log[r].set = 1 /\ ~log[r].setFailed
    /\ pc[q] = "done" /\ readOk(q) /\ log[q].set = 1 /\ ~log[q].setFailed
    /\ log[r].seen = 0 /\ log[q].seen = 0
    /\ stored(store, key[r]) = 1
    /\ count(forwarded, key[r]) = 2

\* r has passed the quota check after a successful read
checked(r) == readOk(r) /\ pc[r] \in {"fetch", "set", "done"}

\* C14: two requests of one key that both read the same count below the
\* limit both pass the quota check: neither is answered 429 and each
\* issues its upstream call.
C14_BothPass ==
  \A r, q \in Reqs :
    (r # q /\ key[r] = key[q] /\ checked(r) /\ checked(q)
       /\ log[r].seen = log[q].seen /\ log[r].seen < DAILY_LIMIT)
      => /\ res[r].status # 429 /\ res[q].status # 429
         /\ log[r].fetch = 1 /\ log[q].fetch = 1

C14_Witness ==
  \E r, q \in Reqs :
    /\ r # q /\ key[r] = key[q] /\ checked(r) /\ checked(q)
    /\ log[r].seen = DAILY_LIMIT - 1 /\ log[q].seen = DAILY_LIMIT - 1
    /\ anthropicResponse[r].ok /\ anthropicResponse[q].ok
    /\ count(forwarded, key[r]) > DAILY_LIMIT

\* how far the handler has run
rank(p) ==
  IF p = "idle" THEN 0 ELSE IF p = "get" THEN 1 ELSE IF p = "fetch" THEN 2
  ELSE IF p = "set" THEN 3 ELSE 4

\* C15: a request issues at most one redis.get, one fetch and one
\* redis.set; the handler only moves forward, a request waiting for fetch
\* issues no further fetch, and when fetch throws the next thing the
\* request does is send the 502.
C15_NoRetry ==
  /\ [](\A r \in Reqs : log[r].get <= 1 /\ log[r].fetch <= 1 /\ log[r].set <= 1)
  /\ [][\A r \in Reqs :
          /\ (pc[r] # "done" /\ pc'[r] # pc[r]) => rank(pc'[r]) > rank(pc[r])
          /\ pc[r] = "done" => pc'[r] \in {"done", "idle"}
          /\ pc[r] = "fetch" => log'[r].fetch = log[r].fetch
          /\ (pc[r] = "fetch" /\ pc'[r] = "done" /\ ~completed(r)')
               => res'[r].status = 502]_vars

C15_Witness ==
  \E r \in Reqs :
    /\ pc[r] = "done" /\ res[r].status = 502 /\ ~completed(r)
    /\ log[r].get = 1 /\ log[r].fetch = 1 /\ log[r].set = 0

\* C16 as stated: a key expires 24 hours after the write that created it;
\* a later write to the key leaves its expiry where it was.
C16_Original ==
  [][\A r \in Reqs :
       (Writes(r) /\ key[r] \in DOMAIN store)
         => store'[key[r]].expireAt = store[key[r]].expireAt]_vars

\* C16 (amended): a key expires 24 hours after the last write to it: every
\* write, the first and each later one, sets the expiry to 24 hours from
\* the time of that write, and a key is in the store only until then.
C16_Refreshed ==
  /\ [][\A r \in Reqs :
          Writes(r) => store'[key[r]].expireAt = now + EX]_vars
  /\ [](\A k \in DOMAIN store :
          store[k].expireAt > now /\ store[k].expireAt <= now + EX)

C16_Witness ==
  \E r \in Reqs :
    /\ pc[r] = "done" /\ readOk(r) /\ log[r].seen = 1
    /\ log[r].set = 1 /\ ~log[r].setFailed
    /\ key[r] \in DOMAIN store
    /\ store[key[r]].value = 2
    /\ store[key[r]].expireAt = 1 + EX

\* C17: in every reachable state the stored count of every key is at most
\* the daily limit.
C17_AtMostLimit ==
  \A k \in DOMAIN store : store[k].value <= DAILY_LIMIT

C17_Witness ==
  \E r, q \in Reqs :
    /\ r # q /\ key[r] = key[q]
    /\ pc[r] = "done" /\ log[r].set = 1 /\ ~log[r].setFailed
    /\ pc[q] = "done" /\ log[q].set = 1 /\ ~log[q].setFailed
    /\ currentUsage[r] = DAILY_LIMIT - 1 /\ currentUsage[q] = DAILY_LIMIT - 1
    /\ stored(store, key[r]) = DAILY_LIMIT

\* C18: the store write of a request whose store read threw sets the count
\* of its key to 1, whatever count the key held.
C18_ResetToOne ==
  [][\A r \in Reqs :
       (Writes(r) /\ log[r].getFailed)
         => anthropicResponse[r].ok /\ stored(store', key[r]) = 1]_vars

C18_Witness ==
  \E r \in Reqs :
    /\ pc[r] = "done" /\ log[r].getFailed /\ anthropicResponse[r].ok
    /\ log[r].set = 1 /\ ~log[r].setFailed
    /\ log[r].seen = DAILY_LIMIT
    /\ stored(store, key[r]) = 1

\* the first address of an X-Forwarded-For value of ForwardedValues
firstAddress(v) == IF v = <<" ", "1", " ", ",", "2">> THEN <<"1">> ELSE v

\* the UTC date at tick t
utcDate(t) ==
  <<"1", "9", "7", "0", "-", "0", "1", "-", "0", Digit((t \div TicksPerDay) + 1)>>

\* usage:<clientId>:<first forwarded address>:<UTC date>, spelled out
usageKey(h, t) ==
  <<"u", "s", "a", "g", "e", ":">>
    \o (IF "x-client-id" \in DOMAIN h THEN h["x-client-id"]
        ELSE <<"u", "n", "k", "n", "o", "w", "n">>)
    \o <<":">>
    \o (IF "x-forwarded-for" \in DOMAIN h THEN firstAddress(h["x-forwarded-for"])
        ELSE <<"u", "n", "k", "n", "o", "w", "n">>)
    \o <<":">> \o utcDate(t)

\* C19: a POST is given the key usage:<clientId>:<first forwarded
\* address>:<UTC date of its arrival>, with unknown for a header it lacks,
\* and keeps it; the count it reads is the count of that key; a step that
\* changes the entry of a key in the store, other than the expiry, is the
\* store write of a request with that key and leaves every other key as it
\* was.
C19_OwnKey ==
  /\ [][\A r \in Reqs :
          /\ (pc[r] = "idle" /\ pc'[r] # "idle" /\ req'[r].method = "POST")
               => key'[r] = usageKey(req'[r].headers, now)
          /\ (pc[r] # "idle" /\ pc'[r] # "idle") => key'[r] = key[r]
          /\ (pc[r] = "get" /\ pc'[r] # "get")
               => /\ currentUsage'[r] \in {0, stored(store, key[r])}
                  /\ ~log'[r].getFailed => currentUsage'[r] = stored(store, key[r])]_vars
  /\ [][now' = now =>
          \A k \in DOMAIN store \cup DOMAIN store' :
            (k \notin DOMAIN store \/ k \notin DOMAIN store' \/ store'[k] # store[k])
              => \E r \in Reqs : Writes(r) /\ key[r] = k]_vars

C19_Witness ==
  \E r, q \in Reqs :
    /\ pc[r] = "done" /\ POST(r) /\ DOMAIN req[r].headers = {}
    /\ key[r] = usageKey(<<>>, 0)
    /\ log[r].set = 1 /\ ~log[r].setFailed
    /\ pc[q] = "done" /\ POST(q) /\ DOMAIN req[q].headers = HeaderNames
    /\ log[q].set = 1 /\ ~log[q].setFailed
    /\ stored(store, key[r]) = DAILY_LIMIT
    /\ stored(store, key[q]) = 1

====
